---- MODULE Spec2Model ----
(***************************************************************************)
(* Model of the data pipeline of app.py: load_data (reading and cleaning   *)
(* the two GDELT tables), apply_filters and smooth.                        *)
(*                                                                         *)
(* A table is a sequence of rows; a row is a record whose field idx is the *)
(* pandas index label (the row's identity through every step).  A floating *)
(* point value is an exact rational <<num, den>> in lowest terms with      *)
(* den > 0; NaN (pd.NA in a float column, an empty CSV cell) is <<0, 0>>.  *)
(***************************************************************************)
EXTENDS Integers, Sequences, FiniteSets, TLC

\* ------------------------------------------------------------------------
\* Bounds of the model
\* ------------------------------------------------------------------------
\* Rows of the two source files together.
MaxRows == 3
\* Rows of the table handed to apply_filters.
MaxFilterRows == 2
\* Rows of the table handed to smooth.
MaxSeriesRows == 3

\* ------------------------------------------------------------------------
\* Exact rationals for float columns
\* ------------------------------------------------------------------------
NaN == <<0, 0>>

Abs(n) == IF n < 0 THEN -n ELSE n

RECURSIVE Gcd(_, _)
Gcd(a, b) == IF b = 0 THEN a ELSE Gcd(b, a % b)

\* n/d in lowest terms (d > 0).
Frac(n, d) ==
  LET g == Gcd(Abs(n), d) IN <<n \div g, d \div g>>

Q(n) == <<n, 1>>

isna(v) == v[2] = 0

AddQ(a, b) == Frac(a[1] * b[2] + b[1] * a[2], a[2] * b[2])

SubQ(a, b) == Frac(a[1] * b[2] - b[1] * a[2], a[2] * b[2])

LessQ(a, b) == a[1] * b[2] < b[1] * a[2]

LeqQ(a, b) == a[1] * b[2] <= b[1] * a[2]

\* ------------------------------------------------------------------------
\* Dates: the CSV text YYYYMMDDThhmmssZ is the pair <<YYYYMMDD, hhmmss>>;
\* a parsed pandas Timestamp is a record.
\* ------------------------------------------------------------------------
Timestamp(y, mo, d, h, mi, s) ==
  [y |-> y, mo |-> mo, d |-> d, h |-> h, mi |-> mi, s |-> s]

\* strptime accepts the text only when every field is in range.
WellFormed(txt) ==
  LET mo == (txt[1] \div 100) % 100
      d  == txt[1] % 100
      h  == txt[2] \div 10000
      mi == (txt[2] \div 100) % 100
      s  == txt[2] % 100
  IN  /\ mo \in 1..12
      /\ d \in 1..31
      /\ h \in 0..23
      /\ mi \in 0..59
      /\ s \in 0..59

\* pd.to_datetime(text, format="%Y%m%dT%H%M%SZ") on one well-formed cell.
to_datetime(txt) ==
  Timestamp(txt[1] \div 10000, (txt[1] \div 100) % 100, txt[1] % 100,
            txt[2] \div 10000, (txt[2] \div 100) % 100, txt[2] % 100)

\* The order of Timestamps: by day, then by time of day.
DayKey(t) == (t.y * 12 + t.mo) * 31 + t.d

SecKey(t) == (t.h * 60 + t.mi) * 60 + t.s

TsLeq(a, b) ==
  \/ DayKey(a) < DayKey(b)
  \/ DayKey(a) = DayKey(b) /\ SecKey(a) <= SecKey(b)

\* ------------------------------------------------------------------------
\* Table helpers
\* ------------------------------------------------------------------------
Range(s) == {s[i] : i \in 1..Len(s)}

Idx(df) == {df[i].idx : i \in 1..Len(df)}

\* The row of df with index label k.
RowAt(df, k) == df[CHOOSE i \in 1..Len(df) : df[i].idx = k]

\* df[mask]: the rows whose index label is in keep, in order.
Take(df, keep) == SelectSeq(df, LAMBDA r : r.idx \in keep)

\* df.loc[labels, "value"] = v
SetValue(df, labels, v) ==
  [i \in 1..Len(df) |->
     IF df[i].idx \in labels THEN [df[i] EXCEPT !.value = v] ELSE df[i]]

Key(r) == <<r.date, r.outlet, r.topic>>

\* ------------------------------------------------------------------------
\* load_data: reading and cleaning the two tables
\* ------------------------------------------------------------------------
IncompleteYear == 2026
ClipLower == -10
ClipUpper == 10

\* pd.read_csv: the rows of the file under a RangeIndex 0..n-1.
read_csv_tone_vol(file) ==
  [i \in 1..Len(file) |->
     [idx |-> i - 1, date |-> file[i].date, year |-> file[i].year,
      outlet |-> file[i].outlet, topic |-> file[i].topic,
      metric |-> file[i].metric, value |-> file[i].value]]

read_csv_topic_share(file) ==
  [i \in 1..Len(file) |->
     [idx |-> i - 1, date |-> file[i].date, year |-> file[i].year,
      outlet |-> file[i].outlet, topic |-> file[i].topic,
      value |-> file[i].value, topic_share |-> file[i].topic_share]]

\* Mutant of ParseFails: errors="coerce", no text makes the parse raise.
ParseFailsNever(df) == FALSE

\* 1. pd.to_datetime raises when any cell does not match the format.
ParseFails(df) == \E i \in 1..Len(df) : ~WellFormed(df[i].date)

ParseDates(df) ==
  [i \in 1..Len(df) |-> [df[i] EXCEPT !.date = to_datetime(df[i].date)]]

\* 2. df[df["year"] != 2026]
DropIncompleteYear(df) == SelectSeq(df, LAMBDA r : r.year # IncompleteYear)

\* Mutant of vol_mask: value == 0 on every row, whatever its metric.
vol_mask_any_metric(tv) ==
  {tv[i].idx : i \in {j \in 1..Len(tv) : tv[j].value = Q(0)}}

\* 3. (metric == "volume") & (value == 0), as the set of labels it selects.
vol_mask(tv) ==
  {tv[i].idx : i \in {j \in 1..Len(tv) :
                        tv[j].metric = "volume" /\ tv[j].value = Q(0)}}

\* tone_vol.loc[vol_mask, ["date", "outlet", "topic"]]
missing_keys(tv) ==
  LET sel == Take(tv, vol_mask(tv))
  IN  [i \in 1..Len(sel) |-> Key(sel[i])]

\* tone_vol[tone_vol["metric"] == "tone"]
tone_rows(tv) == SelectSeq(tv, LAMBDA r : r.metric = "tone")

\* The inner merge of the tone rows' keys (index reset into a column) with
\* missing_keys on (date, outlet, topic): one <<index, j>> per matching pair.
merged(tr, mk) ==
  {p \in Idx(tr) \X (1..Len(mk)) : Key(RowAt(tr, p[1])) = mk[p[2]]}

\* merged["index"]
merged_index(tr, mk) == {p[1] : p \in merged(tr, mk)}

\* df.dropna(subset=[col])
dropna(df, col) == SelectSeq(df, LAMBDA r : ~isna(r[col]))

\* Mutant of DropMissing: the matching tone rows are not marked.
DropMissingVolumeOnly(tv) ==
  dropna(SetValue(tv, vol_mask(tv), NaN), "value")

\* Marking the zero-volume rows and the matching tone rows, then dropping.
DropMissing(tv) ==
  LET mk     == missing_keys(tv)
      marked == SetValue(tv, vol_mask(tv), NaN)
      both   == SetValue(marked, merged_index(tone_rows(marked), mk), NaN)
  IN  dropna(both, "value")

\* Mutant of CleanShare: the rows with a null topic_share are kept.
CleanShareValueOnly(ts) ==
  LET zero   == {ts[i].idx : i \in {j \in 1..Len(ts) : ts[j].value = Q(0)}}
  IN  dropna(SetValue(ts, zero, NaN), "value")

\* topic_share: value == 0 -> NaN, drop NaN value, drop NaN topic_share.
CleanShare(ts) ==
  LET zero   == {ts[i].idx : i \in {j \in 1..Len(ts) : ts[j].value = Q(0)}}
      marked == SetValue(ts, zero, NaN)
  IN  dropna(dropna(marked, "value"), "topic_share")

\* Mutant of clip: only the upper bound is applied.
clip_upper_only(v, lower, upper) ==
  IF isna(v) THEN v ELSE IF LessQ(Q(upper), v) THEN Q(upper) ELSE v

\* Series.clip(lower, upper) on one value (NaN stays NaN).
clip(v, lower, upper) ==
  IF isna(v) THEN v
  ELSE IF LessQ(v, Q(lower)) THEN Q(lower)
  ELSE IF LessQ(Q(upper), v) THEN Q(upper)
  ELSE v

\* 4. Cap the tone rows at +/- 10.
ClipTone(tv) ==
  [i \in 1..Len(tv) |->
     IF tv[i].metric = "tone"
       THEN [tv[i] EXCEPT !.value = clip(tv[i].value, ClipLower, ClipUpper)]
       ELSE tv[i]]

\* 5. pd.Timestamp("2025-12-06")
blackout == Timestamp(2025, 12, 6, 0, 0, 0)

DropBlackout(df) == SelectSeq(df, LAMBDA r : r.date # blackout)

\* The body of load_data on the two files' rows.
load_data(fileTV, fileTS) ==
  LET tv0 == read_csv_tone_vol(fileTV)
      ts0 == read_csv_topic_share(fileTS)
  IN  IF ParseFails(tv0) \/ ParseFails(ts0)
        THEN [ok |-> FALSE, tone_vol |-> <<>>, topic_share |-> <<>>]
        ELSE [ok |-> TRUE,
              tone_vol |->
                DropBlackout(ClipTone(DropMissing(
                  DropIncompleteYear(ParseDates(tv0))))),
              topic_share |->
                DropBlackout(CleanShare(
                  DropIncompleteYear(ParseDates(ts0))))]

\* ------------------------------------------------------------------------
\* apply_filters
\* ------------------------------------------------------------------------
\* Mutant of apply_filters: the upper bound of the year range is excluded.
apply_filters_upper_exclusive(t, yr, outs, tops) ==
  SelectSeq(t, LAMBDA r : /\ r.year >= yr[1]
                          /\ r.year < yr[2]
                          /\ r.outlet \in outs
                          /\ r.topic \in tops)

\* Mutant of apply_filters: an empty selection selects everything.
apply_filters_empty_is_all(t, yr, outs, tops) ==
  SelectSeq(t, LAMBDA r : /\ r.year >= yr[1]
                          /\ r.year <= yr[2]
                          /\ (outs = {} \/ r.outlet \in outs)
                          /\ (tops = {} \/ r.topic \in tops))

\* apply_filters(df) under the widgets' values year_range (yr),
\* selected_outlets (outs) and selected_topics (tops): df[mask].copy().
apply_filters(t, yr, outs, tops) ==
  SelectSeq(t, LAMBDA r : /\ r.year >= yr[1]
                          /\ r.year <= yr[2]
                          /\ r.outlet \in outs
                          /\ r.topic \in tops)

\* ------------------------------------------------------------------------
\* smooth
\* ------------------------------------------------------------------------
\* df.sort_values("date"): the default sort is not stable, so rows of equal
\* date come out in any order.
sort_values(t) ==
  {[i \in 1..Len(t) |-> t[p[i]]] :
     p \in {q \in Permutations(1..Len(t)) :
              \A i, j \in 1..Len(t) :
                i < j => TsLeq(t[q[i]].date, t[q[j]].date)}}

\* Mutant of SameGroup: rows are grouped by outlet alone.
SameGroupOutletOnly(a, b) == a.outlet = b.outlet

\* groupby(["outlet", "topic"]): two rows are of one group.
SameGroup(a, b) == a.outlet = b.outlet /\ a.topic = b.topic

DivQ(a, n) == Frac(a[1], a[2] * n)

\* The rolling window's state <<sum, nobs>> at position i of xs: the value
\* that leaves the window is removed, the new one added; NaN is skipped.
RECURSIVE RollState(_, _, _)
RollState(xs, i, window) ==
  IF i = 0 THEN <<Q(0), 0>>
  ELSE LET prev == RollState(xs, i - 1, window)
           out  == IF i > window /\ ~isna(xs[i - window])
                     THEN <<SubQ(prev[1], xs[i - window]), prev[2] - 1>>
                     ELSE prev
       IN  IF isna(xs[i]) THEN out
           ELSE <<AddQ(out[1], xs[i]), out[2] + 1>>

\* Mutant of RollingMean: min_periods is the window, so the leading rows
\* have no mean.
RollingMeanFullWindow(xs, i, window) ==
  LET st == RollState(xs, i, window)
  IN  IF st[2] >= window THEN DivQ(st[1], st[2]) ELSE NaN

\* x.rolling(window, min_periods=1).mean() at position i of xs.
RollingMean(xs, i, window) ==
  LET st == RollState(xs, i, window)
  IN  IF st[2] >= 1 THEN DivQ(st[1], st[2]) ELSE NaN

\* groupby(...)[value_col].transform(...) on the sorted table: each row's
\* value becomes the rolling mean at its place in its group.
Transform(sorted, window) ==
  [i \in 1..Len(sorted) |->
     LET group == SelectSeq(sorted, LAMBDA r : SameGroup(r, sorted[i]))
         k     == CHOOSE n \in 1..Len(group) : group[n].idx = sorted[i].idx
         xs    == [n \in 1..Len(group) |-> group[n].value]
     IN  [sorted[i] EXCEPT !.value = RollingMean(xs, k, window)]]

\* Mutant of smooth: only a window below 1 returns the table as it is.
smooth_sorts_at_one(t, window) ==
  IF window < 1 THEN {t}
  ELSE {Transform(sorted, window) : sorted \in sort_values(t)}

\* smooth(df, "value", window): the tables it can return.
smooth(t, window) ==
  IF window <= 1 THEN {t}
  ELSE {Transform(sorted, window) : sorted \in sort_values(t)}

\* ------------------------------------------------------------------------
\* The script around load_data, apply_filters and smooth
\* ------------------------------------------------------------------------
\* pd.read_csv raises when a file cannot be read.
read_csv_fails(unreadable) == unreadable # {}

\* Mutant of cache_hit: load_data is not decorated, every call runs it.
cache_hit_never(c) == FALSE

\* @st.cache_data: load_data takes no argument, so the one entry a call
\* has stored answers every later call.
cache_hit(c) == c # <<>>

\* tone_vol[tone_vol["metric"] == "tone"].copy()
tone_df(tv) == SelectSeq(tv, LAMBDA r : r.metric = "tone")

\* tone_vol[tone_vol["metric"] == "volume"].copy()
volume_df(tv) == SelectSeq(tv, LAMBDA r : r.metric = "volume")

\* Mutant of smooth_arg: the sort and the assignment are done in place.
smooth_arg_in_place(t, window) == CHOOSE v \in smooth(t, window) : TRUE

\* The table handed to smooth, after the call: df.sort_values returns a
\* new table, which the assignment of the value column then changes.
smooth_arg(t, window) == t

\* ------------------------------------------------------------------------
\* Aggregations of the filtered tone table
\* ------------------------------------------------------------------------
\* Python's order of the outlet and topic names of the model, which is the
\* order groupby and sort_values put them in.
StrOrder == <<"CNN", "Economy", "Elections", "FoxNews", "NYTimes">>

StrRank(s) == CHOOSE i \in 1..Len(StrOrder) : StrOrder[i] = s

\* The elements of S in ascending order of Code (one-to-one on S).
SortBy(S, Code(_)) ==
  [i \in 1..Cardinality(S) |->
     CHOOSE k \in S : Cardinality({j \in S : Code(j) < Code(k)}) = i - 1]

MulQ(a, b) == Frac(a[1] * b[1], a[2] * b[2])

\* Arithmetic on a float column: NaN in, NaN out.
SubNa(a, b) == IF isna(a) \/ isna(b) THEN NaN ELSE SubQ(a, b)

fillna(v, x) == IF isna(v) THEN x ELSE v

RECURSIVE SumSeq(_)
SumSeq(xs) ==
  IF xs = <<>> THEN Q(0) ELSE AddQ(Head(xs), SumSeq(Tail(xs)))

\* The value column of the rows of t that pass Test.
ValuesWhere(t, Test(_)) ==
  LET sel == SelectSeq(t, Test) IN [i \in 1..Len(sel) |-> sel[i].value]

\* GroupBy.mean of one group.
Mean(xs) == IF xs = <<>> THEN NaN ELSE DivQ(SumSeq(xs), Len(xs))

\* GroupBy.std of one group, kept as its square: the sample variance
\* (ddof = 1), NaN for fewer than two observations.
Std(xs) ==
  IF Len(xs) < 2 THEN NaN
  ELSE LET m  == Mean(xs)
           sq == [i \in 1..Len(xs) |-> MulQ(SubQ(xs[i], m), SubQ(xs[i], m))]
       IN  DivQ(SumSeq(sq), Len(xs) - 1)

YearTopicCode(k) == k[1] * 10 + StrRank(k[2])

YearTopicOutletCode(k) == (k[1] * 10 + StrRank(k[2])) * 10 + StrRank(k[3])

TopicYearCode(k) == StrRank(k[2]) * 10000 + k[1]

YearOutletCode(k) == k[1] * 10 + StrRank(k[2])

OutletTopicCode(k) == StrRank(k[1]) * 10 + StrRank(k[2])

\* tone_f.groupby(["year", "topic", "outlet"])["value"].mean().reset_index()
topic_year_outlet(t) ==
  LET keys == SortBy({<<r.year, r.topic, r.outlet>> : r \in Range(t)},
                     YearTopicOutletCode)
  IN  [i \in 1..Len(keys) |->
         [idx |-> i - 1, year |-> keys[i][1], topic |-> keys[i][2],
          outlet |-> keys[i][3],
          value |-> Mean(ValuesWhere(t, LAMBDA r :
                      <<r.year, r.topic, r.outlet>> = keys[i]))]]

\* Mutant of std_fillna: the missing standard deviation is left missing.
std_unfilled(v) == v

\* topic_year_stats["std_tone"].fillna(0)
std_fillna(v) == fillna(v, Q(0))

\* tone_f.groupby(["year", "topic"]).agg(avg_tone, std_tone, n_days), with
\* the std_tone of a single observation filled with 0.
topic_year_stats(t) ==
  LET keys == SortBy({<<r.year, r.topic>> : r \in Range(t)}, YearTopicCode)
  IN  [i \in 1..Len(keys) |->
         LET xs == ValuesWhere(t, LAMBDA r : <<r.year, r.topic>> = keys[i])
         IN  [year |-> keys[i][1], topic |-> keys[i][2],
              avg_tone |-> Mean(xs),
              std_tone |-> std_fillna(Std(xs)),
              n_days |-> Len(xs)]]

\* Mutant of idxmin: the last of the rows of minimal value.
idxmin_last(g) ==
  g[CHOOSE i \in 1..Len(g) :
      /\ \A j \in 1..Len(g) : LeqQ(g[i].value, g[j].value)
      /\ \A j \in (i + 1)..Len(g) : g[j].value # g[i].value].idx

\* g["value"].idxmin(): the label of the first row of minimal value.
idxmin(g) ==
  g[CHOOSE i \in 1..Len(g) :
      /\ \A j \in 1..Len(g) : LeqQ(g[i].value, g[j].value)
      /\ \A j \in 1..(i - 1) : g[j].value # g[i].value].idx

\* g["value"].idxmax(): the label of the first row of maximal value.
idxmax(g) ==
  g[CHOOSE i \in 1..Len(g) :
      /\ \A j \in 1..Len(g) : LeqQ(g[j].value, g[i].value)
      /\ \A j \in 1..(i - 1) : g[j].value # g[i].value].idx

\* topic_year_outlet.groupby(["year", "topic"]).apply(...): the outlets of
\* the minimal and of the maximal mean of each cell.
outlet_extremes(tyo) ==
  LET keys == SortBy({<<r.year, r.topic>> : r \in Range(tyo)}, YearTopicCode)
  IN  [i \in 1..Len(keys) |->
         LET g == SelectSeq(tyo, LAMBDA r : <<r.year, r.topic>> = keys[i])
         IN  [year |-> keys[i][1], topic |-> keys[i][2],
              most_negative_outlet |-> RowAt(g, idxmin(g)).outlet,
              most_negative_val |-> RowAt(g, idxmin(g)).value,
              most_positive_outlet |-> RowAt(g, idxmax(g)).outlet,
              most_positive_val |-> RowAt(g, idxmax(g)).value]]

\* Mutant of yoy_change: the missing change of the first year stays missing.
yoy_change_unfilled(avg, prev) == SubNa(avg, prev)

\* (avg_tone - prev_tone).fillna(0)
yoy_change(avg, prev) == fillna(SubNa(avg, prev), Q(0))

\* topic_year_stats.merge(outlet_extremes, on=["year", "topic"]), sorted by
\* (topic, year), with prev_tone = groupby("topic")["avg_tone"].shift(1)
\* and yoy_change.
topic_year_rich(t) ==
  LET stats  == topic_year_stats(t)
      ext    == outlet_extremes(topic_year_outlet(t))
      joined == {<<i, j>> \in (1..Len(stats)) \X (1..Len(ext)) :
                   /\ stats[i].year = ext[j].year
                   /\ stats[i].topic = ext[j].topic}
      sorted == SortBy(joined,
                       LAMBDA p : TopicYearCode(<<stats[p[1]].year,
                                                  stats[p[1]].topic>>))
  IN  [n \in 1..Len(sorted) |->
         LET a    == stats[sorted[n][1]]
             e    == ext[sorted[n][2]]
             prev == IF n > 1 /\ stats[sorted[n - 1][1]].topic = a.topic
                       THEN stats[sorted[n - 1][1]].avg_tone
                       ELSE NaN
         IN  [year |-> a.year, topic |-> a.topic, avg_tone |-> a.avg_tone,
              std_tone |-> a.std_tone, n_days |-> a.n_days,
              most_negative_outlet |-> e.most_negative_outlet,
              most_negative_val |-> e.most_negative_val,
              most_positive_outlet |-> e.most_positive_outlet,
              most_positive_val |-> e.most_positive_val,
              prev_tone |-> prev,
              yoy_change |-> yoy_change(a.avg_tone, prev)]]

\* Mutant of rank_min: method="dense", the next distinct value does not
\* skip.
rank_dense(xs, i) ==
  1 + Cardinality({xs[j] : j \in {n \in 1..Len(xs) : LessQ(xs[n], xs[i])}})

\* Series.rank(method="min") at position i of xs: the first place of xs[i]
\* among the values in ascending order.
rank_min(xs, i) ==
  LET places == SortBy(1..Len(xs),
                       LAMBDA n : Cardinality({m \in 1..Len(xs) :
                                    \/ LessQ(xs[m], xs[n])
                                    \/ xs[m] = xs[n] /\ m < n}))
  IN  CHOOSE k \in 1..Len(xs) :
        /\ xs[places[k]] = xs[i]
        /\ \A m \in 1..(k - 1) : xs[places[m]] # xs[i]

\* tone_f.groupby(["year", "outlet"])["value"].mean().reset_index(), with
\* rank = groupby("year")["value"].rank(method="min").astype(int).
yearly_tone(t) ==
  LET keys == SortBy({<<r.year, r.outlet>> : r \in Range(t)}, YearOutletCode)
      mean == [i \in 1..Len(keys) |->
                 Mean(ValuesWhere(t, LAMBDA r :
                   <<r.year, r.outlet>> = keys[i]))]
  IN  [i \in 1..Len(keys) |->
         LET same == SelectSeq([n \in 1..Len(keys) |-> n],
                               LAMBDA n : keys[n][1] = keys[i][1])
             xs   == [n \in 1..Len(same) |-> mean[same[n]]]
             k    == CHOOSE n \in 1..Len(same) : same[n] = i
         IN  [year |-> keys[i][1], outlet |-> keys[i][2],
              value |-> mean[i], rank |-> rank_min(xs, k)]]

\* Mutant of direction: a zero deviation is labelled "More negative".
direction_strict(deviation) ==
  IF LessQ(Q(0), deviation) THEN "Less negative" ELSE "More negative"

\* np.where(deviation >= 0, "Less negative", "More negative")
direction(deviation) ==
  IF ~isna(deviation) /\ LeqQ(Q(0), deviation)
    THEN "Less negative" ELSE "More negative"

\* outlet_topic_tone.merge(topic_avg, on="topic") with deviation and
\* direction.
deviation_df(t) ==
  LET keys == SortBy({<<r.outlet, r.topic>> : r \in Range(t)},
                     OutletTopicCode)
  IN  [i \in 1..Len(keys) |->
         LET tone == Mean(ValuesWhere(t, LAMBDA r :
                       <<r.outlet, r.topic>> = keys[i]))
             avg  == Mean(ValuesWhere(t, LAMBDA r : r.topic = keys[i][2]))
         IN  [outlet |-> keys[i][1], topic |-> keys[i][2],
              outlet_tone |-> tone, topic_avg |-> avg,
              deviation |-> SubNa(tone, avg),
              direction |-> direction(SubNa(tone, avg))]]

\* ------------------------------------------------------------------------
\* State
\* ------------------------------------------------------------------------
VARIABLES
  pc,                 \* where the script is
  file_tone_vol,      \* rows of gdelt_us_politics_tone_and_topics_long.csv
  file_topic_share,   \* rows of gdelt_us_politics_topic_share.csv
  tone_vol,           \* the cleaned tables returned by load_data
  topic_share,
  df,                 \* the table handed to apply_filters / smooth
  year_range,         \* the sidebar widgets
  selected_outlets,
  selected_topics,
  smoothing,
  view,               \* the table apply_filters / smooth returned
  missing,            \* the source files that cannot be read
  cache,              \* what st.cache_data holds for load_data()
  loads,              \* how many times the body of load_data has run
  tone_f,             \* the filtered views of the current run
  volume_f,
  topic_share_f,
  smooth_in,          \* the two tables handed to smooth, after the calls
  tone_smooth,
  volume_smooth,
  charts              \* the aggregates computed from tone_f

widgets == <<year_range, selected_outlets, selected_topics, smoothing>>

derived == <<tone_f, volume_f, topic_share_f, smooth_in, tone_smooth,
             volume_smooth>>

session == <<missing, cache, loads, derived, charts>>

vars == <<pc, file_tone_vol, file_topic_share, tone_vol, topic_share, df,
          widgets, view, session>>

\* Nothing of a script run exists.
NoCharts == [topic_year_rich |-> <<>>, yearly_tone |-> <<>>,
             deviation_df |-> <<>>]

NoSession ==
  /\ missing = {}
  /\ cache = <<>>
  /\ loads = 0
  /\ tone_f = <<>>
  /\ volume_f = <<>>
  /\ topic_share_f = <<>>
  /\ smooth_in = <<>>
  /\ tone_smooth = <<>>
  /\ volume_smooth = <<>>
  /\ charts = NoCharts

\* ------------------------------------------------------------------------
\* The source files the cleaning is checked on
\* ------------------------------------------------------------------------
Outlets == {"CNN", "FoxNews"}
Topics == {"Economy", "Elections"}
Metrics == {"tone", "volume"}

\* Two ordinary days; the blackout day at midnight and at noon; the one
\* day of 2026; a text with month 13.
Day1 == <<20170101, 0>>
Day2 == <<20170102, 0>>
BlackoutMidnight == <<20251206, 0>>
BlackoutNoon == <<20251206, 120000>>
Day2026 == <<20260101, 0>>
Month13 == <<20171301, 0>>
SpecialDates == {BlackoutMidnight, BlackoutNoon, Day2026, Month13}

ToneVolValues == {NaN, Q(0), Frac(21, 5), Q(15), Q(-15)}
ShareValues == {NaN, Q(0), Q(3)}
ShareFractions == {NaN, Frac(1, 2)}

\* The year column of the files is the year of the date column.
ToneVolRow(d, o, t, m, v) ==
  [date |-> d, year |-> d[1] \div 10000, outlet |-> o, topic |-> t,
   metric |-> m, value |-> v]

ShareRow(d, o, t, v, s) ==
  [date |-> d, year |-> d[1] \div 10000, outlet |-> o, topic |-> t,
   value |-> v, topic_share |-> s]

\* One (date, outlet, topic) key with every metric and value; three keys
\* that differ from it in the date, the outlet or the topic, each with a
\* zero or out-of-range value of each metric; a tone row on each special
\* date.
ToneVolRows ==
  {ToneVolRow(Day1, "CNN", "Economy", m, v) :
     m \in Metrics, v \in ToneVolValues}
  \cup
  {ToneVolRow(k[1], k[2], k[3], mv[1], mv[2]) :
     k \in {<<Day2, "CNN", "Economy">>, <<Day1, "FoxNews", "Economy">>,
            <<Day1, "CNN", "Elections">>},
     mv \in Metrics \X {Q(0), Q(15)}}
  \cup
  {ToneVolRow(d, "CNN", "Economy", "tone", Frac(21, 5)) : d \in SpecialDates}

ShareRows ==
  {ShareRow(Day1, o, "Economy", v, s) :
     o \in Outlets, v \in ShareValues, s \in ShareFractions}
  \cup
  {ShareRow(d, "CNN", "Economy", Q(3), Frac(1, 2)) :
     d \in {BlackoutMidnight, BlackoutNoon, Day2026}}

\* ------------------------------------------------------------------------
\* Cleaning: the files hold some rows, then the script calls load_data
\* ------------------------------------------------------------------------
InitLoad ==
  /\ pc = "files"
  /\ file_tone_vol = <<>>
  /\ file_topic_share = <<>>
  /\ tone_vol = <<>>
  /\ topic_share = <<>>
  /\ df = <<>>
  /\ year_range = <<2017, 2025>>
  /\ selected_outlets = {}
  /\ selected_topics = {}
  /\ smoothing = 30
  /\ view = <<>>
  /\ NoSession

\* The tone/volume file holds one more row; one row per
\* (date, outlet, topic, metric).
SourceToneVolRow ==
  /\ pc = "files"
  /\ Len(file_tone_vol) + Len(file_topic_share) < MaxRows
  /\ \E r \in ToneVolRows :
       /\ \A i \in 1..Len(file_tone_vol) :
            <<Key(file_tone_vol[i]), file_tone_vol[i].metric>>
              # <<Key(r), r.metric>>
       /\ file_tone_vol' = Append(file_tone_vol, r)
  /\ UNCHANGED <<pc, file_topic_share, tone_vol, topic_share, df, widgets,
                 view,
                 session>>

\* The topic-share file holds one more row; one row per
\* (date, outlet, topic).
SourceTopicShareRow ==
  /\ pc = "files"
  /\ Len(file_tone_vol) + Len(file_topic_share) < MaxRows
  /\ \E r \in ShareRows :
       /\ \A i \in 1..Len(file_topic_share) :
            Key(file_topic_share[i]) # Key(r)
       /\ file_topic_share' = Append(file_topic_share, r)
  /\ UNCHANGED <<pc, file_tone_vol, tone_vol, topic_share, df, widgets,
                 view,
                 session>>

\* tone_vol, topic_share = load_data()
LoadData ==
  /\ pc = "files"
  /\ LET res == load_data(file_tone_vol, file_topic_share)
     IN  IF res.ok
           THEN /\ tone_vol' = res.tone_vol
                /\ topic_share' = res.topic_share
                /\ pc' = "loaded"
           ELSE /\ UNCHANGED <<tone_vol, topic_share>>
                /\ pc' = "error"
  /\ UNCHANGED <<file_tone_vol, file_topic_share, df, widgets, view,
                 session>>

NextLoad == SourceToneVolRow \/ SourceTopicShareRow \/ LoadData

SpecLoad == InitLoad /\ [][NextLoad]_vars

\* ------------------------------------------------------------------------
\* Properties of the cleaning
\* ------------------------------------------------------------------------
\* The rows of the tone/volume file as read_csv labels them.
RawToneVol == read_csv_tone_vol(file_tone_vol)
RawTopicShare == read_csv_topic_share(file_topic_share)

\* The (date, outlet, topic) key of a file row, its date parsed.
RawKey(r) == <<to_datetime(r.date), r.outlet, r.topic>>

ZeroVolume(r) == r.metric = "volume" /\ r.value = Q(0)

\* C1. Zero-volume correlation: a (date, outlet, topic) key that has a
\* volume row of value 0 in the raw tone/volume table has neither a volume
\* nor a tone row in the cleaned table.
C1_ZeroVolumeCorrelation ==
  pc = "loaded" =>
    \A i \in 1..Len(RawToneVol) :
      ZeroVolume(RawToneVol[i]) =>
        \A j \in 1..Len(tone_vol) :
          Key(tone_vol[j]) # RawKey(RawToneVol[i])

\* A zero-volume row and a non-null tone row of the same key were read, and
\* a row of another key survived the cleaning.
C1_Witness ==
  /\ pc = "loaded"
  /\ tone_vol # <<>>
  /\ \E i, j \in 1..Len(RawToneVol) :
       /\ ZeroVolume(RawToneVol[i])
       /\ RawToneVol[j].metric = "tone"
       /\ ~isna(RawToneVol[j].value)
       /\ RawToneVol[j].year # IncompleteYear
       /\ RawKey(RawToneVol[j]) = RawKey(RawToneVol[i])

\* The calendar day of a Timestamp is 2025-12-06.
OnBlackoutDay(t) == t.y = 2025 /\ t.mo = 12 /\ t.d = 6

\* The raw rows C2 says survive.
Kept(r) ==
  /\ ~isna(r.value)
  /\ r.year # 2026
  /\ ~OnBlackoutDay(to_datetime(r.date))
  /\ ~ZeroVolume(r)
  /\ ~(/\ r.metric = "tone"
       /\ \E i \in 1..Len(RawToneVol) :
            /\ ZeroVolume(RawToneVol[i])
            /\ RawKey(RawToneVol[i]) = RawKey(r))

Clamped(v) ==
  IF LessQ(v, Q(-10)) THEN Q(-10) ELSE IF LessQ(Q(10), v) THEN Q(10) ELSE v

Fixture ==
  << ToneVolRow(Day1, "CNN", "Economy", "volume", Q(0)),
     ToneVolRow(Day1, "CNN", "Economy", "tone", Frac(21, 5)),
     ToneVolRow(Day2, "CNN", "Economy", "tone", Q(15)) >>

\* C2. load_data removes nothing else from the tone/volume table: a raw row
\* with a non-null value, not of 2026, not on 2025-12-06, not a zero volume
\* and not a tone row of a zero-volume key is in the cleaned table exactly
\* once, unchanged but for a tone value clamped into [-10, 10]; the 3-row
\* fixture yields the single row (2017-01-02, CNN, Economy, tone, 10).
C2_NothingElseRemoved ==
  pc = "loaded" =>
    /\ \A i \in 1..Len(RawToneVol) :
         LET r == RawToneVol[i]
         IN  Kept(r) =>
               /\ Cardinality({j \in 1..Len(tone_vol) :
                                 tone_vol[j].idx = r.idx}) = 1
               /\ RowAt(tone_vol, r.idx) =
                    [r EXCEPT !.date = to_datetime(r.date),
                              !.value = IF r.metric = "tone"
                                          THEN Clamped(r.value)
                                          ELSE r.value]
    /\ file_tone_vol = Fixture =>
         tone_vol = << [idx |-> 2,
                        date |-> Timestamp(2017, 1, 2, 0, 0, 0),
                        year |-> 2017, outlet |-> "CNN",
                        topic |-> "Economy", metric |-> "tone",
                        value |-> Q(10)] >>

\* The fixture was cleaned.
C2_Witness == pc = "loaded" /\ file_tone_vol = Fixture /\ Len(tone_vol) = 1

\* A tone row of value 0 whose key has a non-zero volume survived.
C2_WitnessNeutralTone ==
  /\ pc = "loaded"
  /\ \E i, j \in 1..Len(tone_vol) :
       /\ tone_vol[i].metric = "tone"
       /\ tone_vol[i].value = Q(0)
       /\ tone_vol[j].metric = "volume"
       /\ Key(tone_vol[j]) = Key(tone_vol[i])

\* C3. Tone bounds: every tone row of the cleaned tone/volume table has a
\* value in [-10, 10].
C3_ToneBounds ==
  pc = "loaded" =>
    \A i \in 1..Len(tone_vol) :
      tone_vol[i].metric = "tone" =>
        /\ LeqQ(Q(-10), tone_vol[i].value)
        /\ LeqQ(tone_vol[i].value, Q(10))

\* A raw tone of 15 and a raw tone of -15 were cleaned to 10 and -10.
C3_Witness ==
  /\ pc = "loaded"
  /\ \E i, j \in 1..Len(tone_vol) :
       /\ tone_vol[i].metric = "tone"
       /\ tone_vol[j].metric = "tone"
       /\ RowAt(RawToneVol, tone_vol[i].idx).value = Q(15)
       /\ tone_vol[i].value = Q(10)
       /\ RowAt(RawToneVol, tone_vol[j].idx).value = Q(-15)
       /\ tone_vol[j].value = Q(-10)

\* C4. No forbidden rows survive cleaning: no row of either cleaned table
\* has year 2026 or a date on 2025-12-06, whatever the time of day of the
\* well-formed raw timestamps.
C4_NoForbiddenRows ==
  pc = "loaded" =>
    /\ \A i \in 1..Len(tone_vol) :
         tone_vol[i].year # 2026 /\ ~OnBlackoutDay(tone_vol[i].date)
    /\ \A i \in 1..Len(topic_share) :
         topic_share[i].year # 2026 /\ ~OnBlackoutDay(topic_share[i].date)

\* C5. Topic-share cleaning: every row of the cleaned topic-share table has
\* a non-null topic_share and a non-null, non-zero value, and no raw row
\* with value 0 or a null topic_share is in it.
C5_ShareCleaning ==
  pc = "loaded" =>
    /\ \A i \in 1..Len(topic_share) :
         /\ ~isna(topic_share[i].topic_share)
         /\ ~isna(topic_share[i].value)
         /\ topic_share[i].value # Q(0)
    /\ \A i \in 1..Len(RawTopicShare) :
         (RawTopicShare[i].value = Q(0)
            \/ isna(RawTopicShare[i].topic_share)) =>
           RawTopicShare[i].idx \notin Idx(topic_share)

\* A row with a null topic_share (and a usable value) and a row with value
\* 0 were read, and a third row survived.
C5_Witness ==
  /\ pc = "loaded"
  /\ topic_share # <<>>
  /\ \E i, j \in 1..Len(RawTopicShare) :
       /\ RawTopicShare[i].value = Q(3)
       /\ isna(RawTopicShare[i].topic_share)
       /\ RawTopicShare[j].value = Q(0)
       /\ ~isna(RawTopicShare[j].topic_share)

\* ------------------------------------------------------------------------
\* Filtering: a cleaned table holds some rows, then the script reads the
\* widgets and calls apply_filters
\* ------------------------------------------------------------------------
FilterYears == {2017, 2018, 2019}

\* st.slider returns a pair (low, high) with low <= high.
YearRanges == {yr \in FilterYears \X FilterYears : yr[1] <= yr[2]}

\* A row of the cleaned tone table at label k.
ToneRow(k, d, o, t, v) ==
  [idx |-> k, date |-> d, year |-> d.y, outlet |-> o, topic |-> t,
   metric |-> "tone", value |-> v]

InitFilter ==
  /\ pc = "input"
  /\ file_tone_vol = <<>>
  /\ file_topic_share = <<>>
  /\ tone_vol = <<>>
  /\ topic_share = <<>>
  /\ df = <<>>
  /\ year_range = <<2017, 2025>>
  /\ selected_outlets = {}
  /\ selected_topics = {}
  /\ smoothing = 30
  /\ view = <<>>
  /\ NoSession

\* The table holds one more row; one row per (date, outlet, topic).
SourceFilterRow ==
  /\ pc = "input"
  /\ Len(df) < MaxFilterRows
  /\ \E y \in FilterYears, o \in Outlets, t \in Topics :
       LET r == ToneRow(Len(df), Timestamp(y, 1, 1, 0, 0, 0), o, t, Q(1))
       IN  /\ \A i \in 1..Len(df) : Key(df[i]) # Key(r)
           /\ df' = Append(df, r)
  /\ UNCHANGED <<pc, file_tone_vol, file_topic_share, tone_vol, topic_share,
                 widgets, view,
                 session>>

\* The sidebar widgets are read and tone_f = apply_filters(tone_df) runs.
ApplyFilters ==
  /\ pc = "input"
  /\ \E yr \in YearRanges, outs \in SUBSET Outlets, tops \in SUBSET Topics :
       /\ year_range' = yr
       /\ selected_outlets' = outs
       /\ selected_topics' = tops
       /\ view' = apply_filters(df, yr, outs, tops)
  /\ pc' = "filtered"
  /\ UNCHANGED <<file_tone_vol, file_topic_share, tone_vol, topic_share, df,
                 smoothing,
                 session>>

NextFilter == SourceFilterRow \/ ApplyFilters

SpecFilter == InitFilter /\ [][NextFilter]_vars

\* The place of the row labelled k in table t.
Pos(t, k) == CHOOSE i \in 1..Len(t) : t[i].idx = k

\* v holds rows of t, each at most once, in t's order.
IsSubtable(v, t) ==
  /\ \A i \in 1..Len(v) : v[i] \in Range(t)
  /\ \A i, j \in 1..Len(v) :
       i < j => Pos(t, v[i].idx) < Pos(t, v[j].idx)

\* C6. apply_filters returns exactly the rows of its input with
\* year_range[0] <= year <= year_range[1], outlet in selected_outlets and
\* topic in selected_topics, unchanged and in order; an empty selection of
\* outlets or topics gives the empty table.
C6_FilterExact ==
  pc = "filtered" =>
    /\ IsSubtable(view, df)
    /\ \A i \in 1..Len(df) :
         df[i] \in Range(view) <=>
           /\ year_range[1] <= df[i].year
           /\ df[i].year <= year_range[2]
           /\ df[i].outlet \in selected_outlets
           /\ df[i].topic \in selected_topics
    /\ (selected_outlets = {} \/ selected_topics = {}) => view = <<>>

\* Rows of the first and of the last year of a proper range were kept.
C6_Witness ==
  /\ pc = "filtered"
  /\ year_range[1] < year_range[2]
  /\ \E i, j \in 1..Len(view) :
       view[i].year = year_range[1] /\ view[j].year = year_range[2]

\* A non-empty table was filtered with no outlet selected.
C6_WitnessEmpty ==
  pc = "filtered" /\ df # <<>> /\ selected_outlets = {} /\ view = <<>>

FilterParams == YearRanges \X (SUBSET Outlets) \X (SUBSET Topics)

Max(a, b) == IF a >= b THEN a ELSE b
Min(a, b) == IF a <= b THEN a ELSE b

\* The intersection of two parameter sets.
Intersect(p, q) ==
  << <<Max(p[1][1], q[1][1]), Min(p[1][2], q[1][2])>>,
     p[2] \cap q[2], p[3] \cap q[3] >>

Filter(t, p) == apply_filters(t, p[1], p[2], p[3])

\* C7. Filter composition: filtering with R1 and then with R2 gives the
\* rows that filtering once with the intersection of the year ranges, the
\* outlet sets and the topic sets gives; so the order of R1 and R2 does not
\* matter and filtering twice with R1 changes nothing.
C7_FilterComposition ==
  pc = "filtered" =>
    LET R1 == <<year_range, selected_outlets, selected_topics>>
    IN  /\ Filter(view, R1) = view
        /\ \A R2 \in FilterParams :
             /\ Filter(view, R2) = Filter(df, Intersect(R1, R2))
             /\ Filter(Filter(df, R2), R1) = Filter(view, R2)

\* A filtered table that a second, different filter cuts further.
C7_Witness ==
  /\ pc = "filtered"
  /\ Len(view) = 2
  /\ \E R2 \in FilterParams :
       /\ R2[2] # selected_outlets
       /\ R2[1] # year_range
       /\ Len(Filter(view, R2)) = 1

\* ------------------------------------------------------------------------
\* Smoothing: a filtered table holds some rows, then the script reads the
\* smoothing widget and calls smooth
\* ------------------------------------------------------------------------
\* 1 and 30 are options of the smoothing slider; 2 is a window shorter than
\* a series of the model.
Windows == {1, 2, 30}

SeriesDates ==
  {Timestamp(2017, 1, d, 0, 0, 0) : d \in 1..3}

\* One series with every value on every day, and the series of another
\* topic and of another outlet with one value.
SeriesCells ==
  ({<<"CNN", "Economy">>} \X {Q(1), Q(2), Q(3)})
  \cup
  ({<<"CNN", "Elections">>, <<"FoxNews", "Economy">>} \X {Q(-3)})

InitSmooth ==
  /\ pc = "series"
  /\ file_tone_vol = <<>>
  /\ file_topic_share = <<>>
  /\ tone_vol = <<>>
  /\ topic_share = <<>>
  /\ df = <<>>
  /\ year_range = <<2017, 2025>>
  /\ selected_outlets = Outlets
  /\ selected_topics = Topics
  /\ smoothing = 30
  /\ view = <<>>
  /\ NoSession

\* The table holds one more row; one row per (date, outlet, topic).
SourceSeriesRow ==
  /\ pc = "series"
  /\ Len(df) < MaxSeriesRows
  /\ \E d \in SeriesDates, c \in SeriesCells :
       LET r == ToneRow(Len(df), d, c[1][1], c[1][2], c[2])
       IN  /\ \A i \in 1..Len(df) : Key(df[i]) # Key(r)
           /\ df' = Append(df, r)
  /\ UNCHANGED <<pc, file_tone_vol, file_topic_share, tone_vol, topic_share,
                 widgets, view,
                 session>>

\* tone_smooth = smooth(tone_f.copy(), "value", smoothing)
Smooth ==
  /\ pc = "series"
  /\ \E w \in Windows :
       /\ smoothing' = w
       /\ view' \in smooth(df, w)
  /\ pc' = "smoothed"
  /\ UNCHANGED <<file_tone_vol, file_topic_share, tone_vol, topic_share, df,
                 year_range, selected_outlets, selected_topics,
                 session>>

NextSmooth == SourceSeriesRow \/ Smooth

SpecSmooth == InitSmooth /\ [][NextSmooth]_vars

\* The rows of t in the (outlet, topic) partition of r.
Partition(t, r) ==
  {x \in Range(t) : x.outlet = r.outlet /\ x.topic = r.topic}

\* The place k = 1, 2, ... of r in its partition in ascending date order.
Rank(t, r) ==
  Cardinality({x \in Partition(t, r) : TsLeq(x.date, r.date)})

RECURSIVE SumValues(_)
SumValues(rows) ==
  IF rows = {} THEN Q(0)
  ELSE LET x == CHOOSE y \in rows : TRUE
       IN  AddQ(x.value, SumValues(rows \ {x}))

\* The mean of the values of rows max(1, k - window + 1) .. k of the
\* partition of r, k the rank of r.
TrailingMean(t, r, window) ==
  LET k    == Rank(t, r)
      lo   == Max(1, k - window + 1)
      rows == {x \in Partition(t, r) : Rank(t, x) \in lo..k}
  IN  DivQ(SumValues(rows), k - lo + 1)

ExampleSeries ==
  << ToneRow(0, Timestamp(2017, 1, 2, 0, 0, 0), "CNN", "Economy", Q(2)),
     ToneRow(1, Timestamp(2017, 1, 1, 0, 0, 0), "CNN", "Economy", Q(1)),
     ToneRow(2, Timestamp(2017, 1, 3, 0, 0, 0), "CNN", "Economy", Q(3)) >>

\* C8. Smoothing with a shrinking trailing window: for window > 1, smooth
\* keeps every row and gives the k-th row of each (outlet, topic) partition
\* in ascending date order the mean of the original values of rows
\* max(1, k - window + 1) .. k of the partition; values 1, 2, 3 with window
\* 30 give 1, 3/2, 2.
C8_TrailingMean ==
  (pc = "smoothed" /\ smoothing > 1) =>
    /\ Len(view) = Len(df)
    /\ \A i \in 1..Len(df) :
         /\ df[i].idx \in Idx(view)
         /\ RowAt(view, df[i].idx) =
              [df[i] EXCEPT !.value = TrailingMean(df, df[i], smoothing)]
    /\ (df = ExampleSeries /\ smoothing = 30) =>
         /\ RowAt(view, 1).value = Q(1)
         /\ RowAt(view, 0).value = Frac(3, 2)
         /\ RowAt(view, 2).value = Q(2)

\* The example series, not in date order, was smoothed with window 30.
C8_Witness ==
  pc = "smoothed" /\ df = ExampleSeries /\ smoothing = 30 /\ Len(view) = 3

\* A series of three rows was smoothed with window 2: its third row is the
\* mean of the second and third.
C8_WitnessSliding ==
  /\ pc = "smoothed"
  /\ smoothing = 2
  /\ \E i \in 1..Len(df) :
       /\ Rank(df, df[i]) = 3
       /\ RowAt(view, df[i].idx).value # df[i].value
       /\ RowAt(view, df[i].idx).value #
            DivQ(SumValues(Partition(df, df[i])), 3)

\* C9. Smoothing identity: smooth(table, window=1) returns a table equal to
\* its input: the same rows with the same values in the same order.
C9_SmoothIdentity ==
  (pc = "smoothed" /\ smoothing = 1) => view = df

\* A table that is not in date order was smoothed with window 1.
C9_Witness ==
  /\ pc = "smoothed"
  /\ smoothing = 1
  /\ view # <<>>
  /\ \E i, j \in 1..Len(df) :
       i < j /\ ~TsLeq(df[i].date, df[j].date)

FullYears == <<2017, 2019>>

\* C10. Smoothing respects the partition key: the smoothed rows of a
\* selection of outlets and topics are the rows that smoothing the selected
\* rows alone gives, so rows of other outlets or topics have no influence
\* and smoothing commutes with filtering by outlet set and topic set.
C10_PartitionRespected ==
  pc = "smoothed" =>
    \A outs \in SUBSET Outlets, tops \in SUBSET Topics :
      \A alone \in smooth(apply_filters(df, FullYears, outs, tops),
                          smoothing) :
        Range(apply_filters(view, FullYears, outs, tops)) = Range(alone)

\* Rows of two outlets on the same days were smoothed and a value changed.
C10_Witness ==
  /\ pc = "smoothed"
  /\ smoothing > 1
  /\ \E i, j, k \in 1..Len(df) :
       /\ df[i].outlet # df[j].outlet
       /\ df[i].date = df[j].date
       /\ SameGroup(df[i], df[k])
       /\ RowAt(view, df[i].idx).value # df[i].value


\* ------------------------------------------------------------------------
\* Aggregation: the cleaned tone table holds some rows, then the script
\* reads the widgets, filters and computes the aggregates of the charts
\* ------------------------------------------------------------------------
MaxAggRows == 3

AggOutlets == {"CNN", "FoxNews", "NYTimes"}

ToneDay(y, d) == Timestamp(y, 1, d, 0, 0, 0)

\* One (day, topic) with every outlet at a low and at a high tone and two
\* outlets at opposite tones; one outlet's tone for that topic on another
\* day of the year and in the two later years; one row of another topic.
AggCells ==
  ({ToneDay(2017, 1)} \X AggOutlets \X {"Economy"} \X {Q(-5), Q(-2)})
  \cup
  {<<ToneDay(2017, 1), "CNN", "Economy", Q(-3)>>,
   <<ToneDay(2017, 1), "FoxNews", "Economy", Q(3)>>,
   <<ToneDay(2017, 2), "CNN", "Economy", Q(3)>>,
   <<ToneDay(2018, 1), "CNN", "Economy", Q(3)>>,
   <<ToneDay(2019, 1), "CNN", "Economy", Q(-3)>>,
   <<ToneDay(2018, 1), "CNN", "Elections", Q(-2)>>}

AggYearRanges == {<<2017, 2019>>, <<2018, 2019>>}

AggOutletChoices == {AggOutlets, {"CNN", "FoxNews"}}

AggTopicChoices == {Topics, {"Economy"}}

\* The aggregates the charts are drawn from, as computed from tone_f.
Charts(t) ==
  [topic_year_rich |-> topic_year_rich(t),
   yearly_tone |-> yearly_tone(t),
   deviation_df |-> deviation_df(t)]

InitAgg ==
  /\ pc = "cleaned"
  /\ file_tone_vol = <<>>
  /\ file_topic_share = <<>>
  /\ tone_vol = <<>>
  /\ topic_share = <<>>
  /\ df = <<>>
  /\ year_range = <<2017, 2025>>
  /\ selected_outlets = AggOutlets
  /\ selected_topics = Topics
  /\ smoothing = 30
  /\ view = <<>>
  /\ NoSession

\* The cleaned tone table holds one more row; one row per
\* (date, outlet, topic).
SourceAggRow ==
  /\ pc = "cleaned"
  /\ Len(df) < MaxAggRows
  /\ \E c \in AggCells :
       LET r == ToneRow(Len(df), c[1], c[2], c[3], c[4])
       IN  /\ \A i \in 1..Len(df) : Key(df[i]) # Key(r)
           /\ df' = Append(df, r)
  /\ UNCHANGED <<pc, file_tone_vol, file_topic_share, tone_vol, topic_share,
                 widgets, view, session>>

\* The sidebar widgets are read, tone_f = apply_filters(tone_df) runs and
\* the aggregates are computed from tone_f.
Aggregate ==
  /\ pc = "cleaned"
  /\ \E yr \in AggYearRanges, outs \in AggOutletChoices,
        tops \in AggTopicChoices :
       /\ year_range' = yr
       /\ selected_outlets' = outs
       /\ selected_topics' = tops
       /\ tone_f' = apply_filters(df, yr, outs, tops)
       /\ charts' = Charts(apply_filters(df, yr, outs, tops))
  /\ pc' = "charts"
  /\ UNCHANGED <<file_tone_vol, file_topic_share, tone_vol, topic_share, df,
                 smoothing, view, missing, cache, loads, volume_f,
                 topic_share_f, smooth_in, tone_smooth, volume_smooth>>

NextAgg == SourceAggRow \/ Aggregate

SpecAgg == InitAgg /\ [][NextAgg]_vars


\* ------------------------------------------------------------------------
\* Properties of the aggregates
\* ------------------------------------------------------------------------
TopicsOf(t) == {r.topic : r \in Range(t)}

YearsOf(t, topic) == {r.year : r \in {x \in Range(t) : x.topic = topic}}

EarliestYear(t, topic) ==
  CHOOSE y \in YearsOf(t, topic) : \A z \in YearsOf(t, topic) : y <= z

\* The mean of the tone rows of t for (year, topic), NaN when there is none.
CellMean(t, y, topic) ==
  LET cell == {r \in Range(t) : r.year = y /\ r.topic = topic}
  IN  IF cell = {} THEN NaN ELSE DivQ(SumValues(cell), Cardinality(cell))

\* The places of the (year, topic) cell in topic_year_rich.
RichAt(y, topic) ==
  {i \in 1..Len(charts.topic_year_rich) :
     /\ charts.topic_year_rich[i].year = y
     /\ charts.topic_year_rich[i].topic = topic}

\* C11: for every topic of the filtered tone table, the one row of
\* topic_year_rich for the topic's earliest year in the selected range has
\* yoy_change = 0, not null, whatever the cleaned table holds for the topic
\* in earlier years.
C11_YoyBoundary ==
  pc = "charts" =>
    \A topic \in TopicsOf(tone_f) :
      LET at == RichAt(EarliestYear(tone_f, topic), topic)
      IN  /\ Cardinality(at) = 1
          /\ \A i \in at : charts.topic_year_rich[i].yoy_change = Q(0)

\* The range starts in 2018, the cleaned table holds the topic in 2017 at
\* another mean tone, and the delta of 2018 is 0.
C11_Witness ==
  /\ pc = "charts"
  /\ \E topic \in TopicsOf(tone_f) :
       /\ EarliestYear(tone_f, topic) = 2018
       /\ ~isna(CellMean(df, 2017, topic))
       /\ CellMean(df, 2017, topic) # CellMean(df, 2018, topic)
       /\ \A i \in RichAt(2018, topic) :
            charts.topic_year_rich[i].yoy_change = Q(0)

\* C17: for every topic and every year Y of the filtered data but the
\* topic's earliest, yoy_change at (topic, Y) is the topic's mean tone in Y
\* minus its mean tone in Y - 1 (a difference that does not exist reading
\* as 0, as the chart shows it).
C17_YoyPrecedingYear ==
  pc = "charts" =>
    \A topic \in TopicsOf(tone_f) :
      \A y \in YearsOf(tone_f, topic) \ {EarliestYear(tone_f, topic)} :
        \A i \in RichAt(y, topic) :
          charts.topic_year_rich[i].yoy_change
            = fillna(SubNa(CellMean(tone_f, y, topic),
                           CellMean(tone_f, y - 1, topic)), Q(0))


\* The mean of the tone rows of t for (year, outlet).
YearOutletMean(t, y, outlet) ==
  LET cell == {r \in Range(t) : r.year = y /\ r.outlet = outlet}
  IN  IF cell = {} THEN NaN ELSE DivQ(SumValues(cell), Cardinality(cell))

\* C12: yearly_tone has one row per (year, outlet) of the filtered tone
\* table, holding the outlet's mean tone of the year and as rank 1 plus the
\* number of outlets of the year with a strictly lower mean.
C12_RankMin ==
  pc = "charts" =>
    /\ \A r \in Range(tone_f) :
         Cardinality({i \in 1..Len(charts.yearly_tone) :
           /\ charts.yearly_tone[i].year = r.year
           /\ charts.yearly_tone[i].outlet = r.outlet}) = 1
    /\ \A i \in 1..Len(charts.yearly_tone) :
         LET row == charts.yearly_tone[i]
             outlets == {r.outlet : r \in {x \in Range(tone_f) :
                                             x.year = row.year}}
         IN  /\ row.value = YearOutletMean(tone_f, row.year, row.outlet)
             /\ row.rank = 1 + Cardinality({o \in outlets :
                  LessQ(YearOutletMean(tone_f, row.year, o), row.value)})

\* Means -5, -5 and -2 in one year have ranks 1, 1 and 3.
C12_Witness ==
  /\ pc = "charts"
  /\ \E i, j, k \in 1..Len(charts.yearly_tone) :
       /\ charts.yearly_tone[i].year = charts.yearly_tone[j].year
       /\ charts.yearly_tone[j].year = charts.yearly_tone[k].year
       /\ i # j
       /\ charts.yearly_tone[i].value = Q(-5)
       /\ charts.yearly_tone[j].value = Q(-5)
       /\ charts.yearly_tone[k].value = Q(-2)
       /\ charts.yearly_tone[i].rank = 1
       /\ charts.yearly_tone[j].rank = 1
       /\ charts.yearly_tone[k].rank = 3


\* The mean of the rows of a set of tone rows.
MeanOfRows(rows) ==
  IF rows = {} THEN NaN ELSE DivQ(SumValues(rows), Cardinality(rows))

\* C13: deviation_df has one row per (outlet, topic) of the filtered tone
\* table; its deviation is the outlet's mean tone for the topic minus the
\* mean tone of the topic over the rows of all selected outlets, and its
\* direction is "More negative" exactly when the deviation is negative.
C13_DeviationSign ==
  pc = "charts" =>
    /\ \A r \in Range(tone_f) :
         Cardinality({i \in 1..Len(charts.deviation_df) :
           /\ charts.deviation_df[i].outlet = r.outlet
           /\ charts.deviation_df[i].topic = r.topic}) = 1
    /\ \A i \in 1..Len(charts.deviation_df) :
         LET row == charts.deviation_df[i]
             own == {r \in Range(tone_f) :
                       r.outlet = row.outlet /\ r.topic = row.topic}
             all == {r \in Range(tone_f) : r.topic = row.topic}
         IN  /\ row.deviation = SubQ(MeanOfRows(own), MeanOfRows(all))
             /\ row.direction \in {"More negative", "Less negative"}
             /\ row.direction = "More negative"
                  <=> LessQ(row.deviation, Q(0))

\* Topic mean 0 and outlet mean -3: deviation -3, "More negative".
C13_Witness ==
  /\ pc = "charts"
  /\ \E i \in 1..Len(charts.deviation_df) :
       /\ charts.deviation_df[i].topic_avg = Q(0)
       /\ charts.deviation_df[i].outlet_tone = Q(-3)
       /\ charts.deviation_df[i].deviation = Q(-3)
       /\ charts.deviation_df[i].direction = "More negative"


\* The keys of OUTLET_COLORS for the outlets of the model, in the order of
\* the dict literal.
OUTLET_COLORS == <<"NYTimes", "FoxNews", "CNN">>

ColorRank(o) == CHOOSE i \in 1..Len(OUTLET_COLORS) : OUTLET_COLORS[i] = o

\* The mean of the tone rows of t for (year, topic, outlet).
OutletCellMean(t, y, topic, outlet) ==
  MeanOfRows({r \in Range(t) :
                r.year = y /\ r.topic = topic /\ r.outlet = outlet})

OutletsOfCell(t, y, topic) ==
  {r.outlet : r \in {x \in Range(t) : x.year = y /\ x.topic = topic}}

\* The outlets of the cell whose mean is the minimum / the maximum.
ArgMin(t, y, topic) ==
  {o \in OutletsOfCell(t, y, topic) :
     \A p \in OutletsOfCell(t, y, topic) :
       LeqQ(OutletCellMean(t, y, topic, o), OutletCellMean(t, y, topic, p))}

ArgMax(t, y, topic) ==
  {o \in OutletsOfCell(t, y, topic) :
     \A p \in OutletsOfCell(t, y, topic) :
       LeqQ(OutletCellMean(t, y, topic, p), OutletCellMean(t, y, topic, o))}

\* The element of S that comes first under Place.
FirstBy(S, Place(_)) == CHOOSE o \in S : \A p \in S : Place(o) <= Place(p)

\* C18 as stated: in every (year, topic) cell the most negative and the
\* most positive outlet are those of minimal and maximal mean, the first
\* in the order of the outlet enumeration OUTLET_COLORS when several tie.
C18_TiesByEnumeration ==
  pc = "charts" =>
    \A i \in 1..Len(charts.topic_year_rich) :
      LET row == charts.topic_year_rich[i]
      IN  /\ row.most_negative_outlet
               = FirstBy(ArgMin(tone_f, row.year, row.topic), ColorRank)
          /\ row.most_positive_outlet
               = FirstBy(ArgMax(tone_f, row.year, row.topic), ColorRank)

\* C18, amended: in every (year, topic) cell the most negative and the
\* most positive outlet are those of minimal and maximal mean, with these
\* means as most_negative_val and most_positive_val; when several outlets
\* tie, the one reported is the first in alphabetical order of outlet name.
C18_TiesAlphabetical ==
  pc = "charts" =>
    \A i \in 1..Len(charts.topic_year_rich) :
      LET row == charts.topic_year_rich[i]
          lo  == FirstBy(ArgMin(tone_f, row.year, row.topic), StrRank)
          hi  == FirstBy(ArgMax(tone_f, row.year, row.topic), StrRank)
      IN  /\ row.most_negative_outlet = lo
          /\ row.most_positive_outlet = hi
          /\ row.most_negative_val
               = OutletCellMean(tone_f, row.year, row.topic, lo)
          /\ row.most_positive_val
               = OutletCellMean(tone_f, row.year, row.topic, hi)

\* FoxNews and NYTimes tie for the minimum below CNN: FoxNews is reported,
\* NYTimes comes first in OUTLET_COLORS.
C18_Witness ==
  /\ pc = "charts"
  /\ \E i \in 1..Len(charts.topic_year_rich) :
       LET row == charts.topic_year_rich[i]
       IN  /\ ArgMin(tone_f, row.year, row.topic) = {"FoxNews", "NYTimes"}
           /\ ArgMax(tone_f, row.year, row.topic) = {"CNN"}
           /\ row.most_negative_outlet = "FoxNews"
           /\ row.most_positive_outlet = "CNN"


\* C19: every row of the year-by-topic statistics has a std_tone that is
\* not null; a (year, topic) cell with exactly one tone observation has
\* std_tone = 0, n_days = 1 and avg_tone equal to the observation.
C19_SingleObservation ==
  pc = "charts" =>
    /\ \A r \in Range(tone_f) : RichAt(r.year, r.topic) # {}
    /\ \A i \in 1..Len(charts.topic_year_rich) :
         LET row  == charts.topic_year_rich[i]
             cell == {r \in Range(tone_f) :
                        r.year = row.year /\ r.topic = row.topic}
         IN  /\ ~isna(row.std_tone)
             /\ row.n_days = Cardinality(cell)
             /\ Cardinality(cell) = 1 =>
                  /\ row.std_tone = Q(0)
                  /\ row.n_days = 1
                  /\ \A r \in cell : row.avg_tone = r.value

\* One cell with a single observation next to one with two observations
\* of different tone, whose std_tone is not 0.
C19_Witness ==
  /\ pc = "charts"
  /\ \E i, j \in 1..Len(charts.topic_year_rich) :
       /\ charts.topic_year_rich[i].n_days = 1
       /\ charts.topic_year_rich[i].std_tone = Q(0)
       /\ charts.topic_year_rich[i].avg_tone = Q(-3)
       /\ charts.topic_year_rich[j].n_days = 2
       /\ charts.topic_year_rich[j].std_tone # Q(0)


\* ------------------------------------------------------------------------
\* A session: the files hold some rows, the script runs once with the
\* widgets' defaults, then reruns on every change of a widget
\* ------------------------------------------------------------------------
MaxSessionRows == 2
\* Runs of the body of load_data the model follows.
MaxLoads == 2

SourceFiles == {"tone_and_topics_long", "topic_share"}

\* A series of two days, another outlet, a volume row and a malformed date.
SessionToneVolRows ==
  {ToneVolRow(Day1, "CNN", "Economy", "tone", Frac(21, 5)),
   ToneVolRow(Day2, "CNN", "Economy", "tone", Q(0)),
   ToneVolRow(Day1, "FoxNews", "Elections", "tone", Q(15)),
   ToneVolRow(Day1, "CNN", "Economy", "volume", Q(15)),
   ToneVolRow(Month13, "CNN", "Economy", "tone", Frac(21, 5))}

SessionShareRows ==
  {ShareRow(Day1, "CNN", "Economy", Q(3), Frac(1, 2)),
   ShareRow(Month13, "CNN", "Economy", Q(3), Frac(1, 2))}

DefaultYearRange == <<2017, 2025>>

DefaultSmoothing == 30

SessionYearRanges == {DefaultYearRange, <<2018, 2025>>}

SessionOutletChoices == {Outlets, {"CNN"}, {}}

SessionTopicChoices == {Topics, {"Economy"}}

SessionWindows == {1, DefaultSmoothing}

InitSession ==
  /\ pc = "files"
  /\ file_tone_vol = <<>>
  /\ file_topic_share = <<>>
  /\ tone_vol = <<>>
  /\ topic_share = <<>>
  /\ df = <<>>
  /\ year_range = DefaultYearRange
  /\ selected_outlets = Outlets
  /\ selected_topics = Topics
  /\ smoothing = DefaultSmoothing
  /\ view = <<>>
  /\ NoSession

\* A source file is not where the script looks for it.
RemoveFile ==
  /\ pc = "files"
  /\ \E f \in SourceFiles \ missing : missing' = missing \cup {f}
  /\ UNCHANGED <<pc, file_tone_vol, file_topic_share, tone_vol, topic_share,
                 df, widgets, view, cache, loads, derived, charts>>

\* The tone/volume file holds one more row.
SourceSessionToneVolRow ==
  /\ pc = "files"
  /\ Len(file_tone_vol) + Len(file_topic_share) < MaxSessionRows
  /\ \E r \in SessionToneVolRows :
       /\ \A i \in 1..Len(file_tone_vol) :
            <<Key(file_tone_vol[i]), file_tone_vol[i].metric>>
              # <<Key(r), r.metric>>
       /\ file_tone_vol' = Append(file_tone_vol, r)
  /\ UNCHANGED <<pc, file_topic_share, tone_vol, topic_share, df, widgets,
                 view, session>>

\* The topic-share file holds one more row.
SourceSessionShareRow ==
  /\ pc = "files"
  /\ Len(file_tone_vol) + Len(file_topic_share) < MaxSessionRows
  /\ \E r \in SessionShareRows :
       /\ \A i \in 1..Len(file_topic_share) :
            Key(file_topic_share[i]) # Key(r)
       /\ file_topic_share' = Append(file_topic_share, r)
  /\ UNCHANGED <<pc, file_tone_vol, tone_vol, topic_share, df, widgets,
                 view, session>>

\* One run of the script from top to bottom under the widgets' values:
\* load_data() through the cache, the split, the three filtered views, the
\* two smoothed views and the aggregates.  An exception of load_data ends
\* the run before anything is bound.
Script(yr, outs, tops, w) ==
  LET hit   == cache_hit(cache)
      res   == IF hit THEN cache[1]
                      ELSE load_data(file_tone_vol, file_topic_share)
      fails == ~hit /\ (read_csv_fails(missing) \/ ~res.ok)
      tf    == apply_filters(tone_df(res.tone_vol), yr, outs, tops)
      vf    == apply_filters(volume_df(res.tone_vol), yr, outs, tops)
  IN  /\ loads' = IF hit THEN loads ELSE loads + 1
      /\ IF fails
           THEN /\ pc' = "error"
                /\ UNCHANGED <<cache, tone_vol, topic_share, widgets,
                               derived, charts>>
           ELSE /\ pc' = "shown"
                /\ cache' = <<res>>
                /\ tone_vol' = res.tone_vol
                /\ topic_share' = res.topic_share
                /\ year_range' = yr
                /\ selected_outlets' = outs
                /\ selected_topics' = tops
                /\ smoothing' = w
                /\ tone_f' = tf
                /\ volume_f' = vf
                /\ topic_share_f' = apply_filters(res.topic_share, yr, outs,
                                                  tops)
                /\ tone_smooth' \in smooth(tf, w)
                /\ volume_smooth' \in smooth(vf, w)
                /\ smooth_in' = <<smooth_arg(tf, w), smooth_arg(vf, w)>>
                /\ charts' = Charts(tf)
      /\ UNCHANGED <<file_tone_vol, file_topic_share, missing, df, view>>

\* The first run of the session: every widget has its default.
Run ==
  /\ pc = "files"
  /\ Script(DefaultYearRange, Outlets, Topics, DefaultSmoothing)

\* The user changes a widget and Streamlit reruns the script.
Interact ==
  /\ pc = "shown"
  /\ loads < MaxLoads
  /\ \E yr \in SessionYearRanges, outs \in SessionOutletChoices,
        tops \in SessionTopicChoices, w \in SessionWindows :
       /\ <<yr, outs, tops, w>> # widgets
       /\ Script(yr, outs, tops, w)

NextSession ==
  \/ RemoveFile
  \/ SourceSessionToneVolRow
  \/ SourceSessionShareRow
  \/ Run
  \/ Interact

SpecSession == InitSession /\ [][NextSession]_vars


\* ------------------------------------------------------------------------
\* Properties of a session
\* ------------------------------------------------------------------------
Malformed(file) == \E i \in 1..Len(file) : ~WellFormed(file[i].date)

\* Nothing the script binds after load_data() exists.
NothingBound ==
  /\ tone_vol = <<>>
  /\ topic_share = <<>>
  /\ tone_f = <<>>
  /\ volume_f = <<>>
  /\ topic_share_f = <<>>
  /\ smooth_in = <<>>
  /\ tone_smooth = <<>>
  /\ volume_smooth = <<>>
  /\ charts = NoCharts

C14_WitnessUnreadable ==
  /\ pc = "error"
  /\ missing = {"topic_share"}
  /\ ~Malformed(file_tone_vol)
  /\ file_tone_vol # <<>>
  /\ NothingBound

\* One malformed date next to a well-formed row of the same file.
C14_WitnessPartial ==
  /\ pc = "error"
  /\ missing = {}
  /\ Len(file_tone_vol) = 2
  /\ \E i, j \in 1..2 :
       WellFormed(file_tone_vol[i].date) /\ ~WellFormed(file_tone_vol[j].date)
  /\ NothingBound


\* What cleaning the files gives.
Cleaned == load_data(file_tone_vol, file_topic_share)

\* The tables of a run are as they were produced: the cleaned tables are
\* what cleaning gave, the filtered views what filtering them gives, and
\* the tables handed to smooth are the filtered views.
AsProduced ==
  /\ cache = <<Cleaned>>
  /\ tone_vol = Cleaned.tone_vol
  /\ topic_share = Cleaned.topic_share
  /\ tone_f = apply_filters(tone_df(tone_vol), year_range, selected_outlets,
                            selected_topics)
  /\ volume_f = apply_filters(volume_df(tone_vol), year_range,
                              selected_outlets, selected_topics)
  /\ topic_share_f = apply_filters(topic_share, year_range, selected_outlets,
                                   selected_topics)
  /\ smooth_in = <<tone_f, volume_f>>

\* A rerun leaves the cleaned tables and the cached result as they are.
CleanedKept ==
  pc = "shown" =>
    /\ cache' = cache
    /\ tone_vol' = tone_vol
    /\ topic_share' = topic_share

\* C15: after every run the cleaned tables, the filtered views and the
\* tables handed to smooth hold the rows and values they were produced
\* with, and no rerun, whatever the widgets, changes the cleaned tables.
C15_ReadOnlyPipeline ==
  /\ [](pc = "shown" => AsProduced)
  /\ [][CleanedKept]_vars

\* After an interaction the smoothed view differs from the filtered view
\* it was computed from, which is as it was produced.
C15_Witness ==
  /\ pc = "shown"
  /\ widgets # <<DefaultYearRange, Outlets, Topics, DefaultSmoothing>>
  /\ Len(tone_f) = 2
  /\ tone_smooth # tone_f
  /\ smooth_in = <<tone_f, volume_f>>
  /\ tone_vol # <<>>
  /\ AsProduced


\* A rerun does not run the body of load_data and binds the cached tables.
Reused ==
  pc = "shown" =>
    /\ loads' = loads
    /\ pc' = "shown"
    /\ tone_vol' = cache[1].tone_vol
    /\ topic_share' = cache[1].topic_share

\* C16: in a session the body of load_data runs at most once, on the first
\* run; every rerun after a change of a widget, whatever the widgets' new
\* values, takes the tables of that one run from the cache.
C16_MemoizedCleaning ==
  /\ [](loads <= 1)
  /\ [](pc = "shown" => loads = 1 /\ cache = <<Cleaned>>)
  /\ [][Reused]_vars

\* The script has rerun under other widget values and the body of
\* load_data has run once.
C16_Witness ==
  /\ pc = "shown"
  /\ loads = 1
  /\ year_range # DefaultYearRange
  /\ smoothing # DefaultSmoothing
  /\ tone_vol # <<>>
  /\ tone_vol = cache[1].tone_vol

====
